---- MODULE Spec2Model ----
(***************************************************************************)
(* mc4sv: IPv4 multicast receiver (src/mc4sv.c).                           *)
(*                                                                         *)
(* The model follows main() statement by statement.  pc names the next     *)
(* statement of main; SIGINT and SIGALRM are delivered between statements  *)
(* and run alarm_handler, whose siglongjmp lands at the sigsetjmp of line  *)
(* 154 and takes the "goto quit" branch.  A statement of main is atomic.   *)
(* "return 0" from main is taken as the end of the process.                *)
(***************************************************************************)
EXTENDS Integers, Sequences, FiniteSets, TLC

VARIABLES
    pc,          \* next statement of main, or "exited" / "killed" / "crashed"
    exitcode,    \* exit status of the process, -1 while it runs
    errmsg,      \* what err()/errx()/usage() reported on the error stream
    nopts,       \* options getopt has returned so far
    ch,          \* int ch: what getopt returned last, "none" before
    optarg,      \* getopt's optarg, << >> when the option takes none
    quiet,       \* int quiet
    timeout,     \* time_t timeout
    ifname,      \* char ifname[IFNAMSIZ]
    mcast,       \* char *mcast
    service,     \* char *service
    imr_if,      \* imr.imr_interface
    res,         \* number of candidates getaddrinfo returned (the res list)
    ai,          \* position of ai in the res list, res + 1 is NULL
    fd,          \* state of the socket fd refers to
    cause,       \* char *cause
    failedOp,    \* call that failed last in the candidate loop (observer)
    nOpen,       \* sockets currently open in the process
    hALRM,       \* alarm_handler installed for SIGALRM
    hINT,        \* alarm_handler installed for SIGINT
    env,         \* static sigjmp_buf env: whether sigsetjmp has filled it,
                 \* and the values of packets and sumsize it saved
    timer,       \* ITIMER_REAL: "off", "armed", "fired"
    packets,     \* size_t packets
    sumsize,     \* size_t sumsize
    received,    \* ssize_t received
    sin_port,    \* sin.sin_port, as recvfrom stored it
    out,         \* lines written to stdout, in order
    nRecv,       \* datagrams recvfrom has returned           (observer)
    sumLen,      \* sum of the payload lengths of those       (observer)
    srcPort,     \* port the last datagram was sent from      (observer)
    nFail,       \* recvfrom calls that failed                (observer)
    lookups,     \* getifaddrs / getaddrinfo calls made       (observer)
    sockCalls,   \* socket() calls made                       (observer)
    ints,        \* SIGINT signals sent to the process        (observer)
    cancels,     \* runs of alarm_handler                     (observer)
    landed,      \* statement the first run interrupted       (observer)
    closes       \* close(fd) calls at line 178               (observer)

vars == << pc, exitcode, errmsg, nopts, ch, optarg, quiet, timeout, ifname, mcast, service,
           imr_if, res, ai, fd, cause, failedOp, nOpen, hALRM, hINT, env, timer,
           packets, sumsize, received, sin_port, out, nRecv, sumLen, srcPort, nFail, lookups,
           sockCalls, ints, cancels, landed, closes >>

cfgVars  == << nopts, ch, optarg, quiet, timeout, ifname, mcast, service >>
sockVars == << imr_if, res, ai, fd, cause, failedOp, nOpen >>
sigVars  == << hALRM, hINT, env, timer >>
statVars == << packets, sumsize, received, sin_port >>
obsVars  == << nRecv, sumLen, srcPort, nFail, lookups, sockCalls, ints, cancels, landed, closes >>

(***************************************************************************)
(* Bounds of the model.                                                    *)
(***************************************************************************)
MaxOpts    == 3      \* options on the command line
MaxCand    == 2      \* candidates in the getaddrinfo list
MaxPackets == 2      \* recvfrom calls that return
MaxInts    == 1      \* SIGINT signals sent
SizeBits   == 14     \* modelled width of size_t
SizeMod    == 2 ^ SizeBits

(***************************************************************************)
(* Program constants.                                                      *)
(***************************************************************************)
BUFFERSIZE == 2048
IFNAMSIZ   == 16
MaxTimeout == 3600

(***************************************************************************)
(* Inputs.                                                                 *)
(***************************************************************************)
\* stands for the value of a size_t that is indeterminate (never
\* initialised, or clobbered by siglongjmp): a read of it may give any value
Indet == -1

\* payload lengths of the datagrams sent to the group
Payloads == {10, 2049}

\* -t arguments
TimeoutArgs == { <<"0">>, <<"3","6","0","0">>, <<"3","6","0","1">>,
                 <<"-","1">>, <<"a","b","c">> }

LongName == <<"v","e","r","y","l","o","n","g","i","f","n","a","m","e","0","1">>

\* -i arguments
IfArgs == { << >>, <<"e","t","h","0">>, <<"e","t","h">>,
            <<"t","u","n","0">>, LongName }

\* the list getifaddrs returns: name, address family of ifa_addr ("NULL"
\* when ifa_addr is a null pointer), address
Ifaddrs == << [name |-> <<"l","o">>,         family |-> "AF_PACKET", addr |-> "none"],
              [name |-> <<"e","t","h","0">>, family |-> "AF_PACKET", addr |-> "none"],
              [name |-> <<"t","u","n","0">>, family |-> "NULL",      addr |-> "none"],
              [name |-> <<"l","o">>,         family |-> "AF_INET",   addr |-> "127.0.0.1"],
              [name |-> <<"e","t","h","0">>, family |-> "AF_INET",   addr |-> "192.0.2.7"],
              [name |-> <<"t","u","n","0">>, family |-> "AF_INET6",  addr |-> "fe80::1"] >>

\* mcast-group arguments: a group, a unicast address, not an address
McastArgs == { "224.0.0.1", "10.0.0.1", "foo" }

\* service arguments
ServiceArgs == { "discard", "nosuch" }

\* ports the datagrams are sent from
Ports == { 258 }

\* the host stores the low byte of an integer first (x86, ARM)
LittleEndianHost == TRUE

(***************************************************************************)
(* Library functions.                                                      *)
(***************************************************************************)
Digits == << "0","1","2","3","4","5","6","7","8","9" >>

IsDigit(c) == \E i \in 1..10 : Digits[i] = c

DigitVal(c) == (CHOOSE i \in 1..10 : Digits[i] = c) - 1

RECURSIVE AtoiDigits(_, _)
AtoiDigits(s, acc) ==
    IF s = << >> \/ ~IsDigit(Head(s))
    THEN acc
    ELSE AtoiDigits(Tail(s), acc * 10 + DigitVal(Head(s)))

\* atoi(3): optional sign, then the leading digits; 0 when there are none
atoi(s) ==
    IF s = << >> THEN 0
    ELSE IF Head(s) = "-" THEN 0 - AtoiDigits(Tail(s), 0)
    ELSE IF Head(s) = "+" THEN AtoiDigits(Tail(s), 0)
    ELSE AtoiDigits(s, 0)

\* the two bytes of a 16-bit value exchanged
Swap16(p) == (p % 256) * 256 + (p \div 256)

\* htons(3) and ntohs(3): between host and network byte order
htons(p) == IF LittleEndianHost THEN Swap16(p) ELSE p

ntohs(n) == IF LittleEndianHost THEN Swap16(n) ELSE n

\* strlen(3)
strlen(s) == Len(s)

\* inet_aton(3): nonzero when the string is an IPv4 address
inet_aton(s) == IF s \in {"224.0.0.1", "10.0.0.1"} THEN 1 ELSE 0

\* IN_MULTICAST: what IP_ADD_MEMBERSHIP requires of imr_multiaddr
IsMulticast(s) == s = "224.0.0.1"

Alive == pc \notin {"exited", "killed", "crashed"}

\* err(3) / errx(3) / usage(): report on the error stream and exit(1)
Exit1(msg) ==
    /\ pc' = "exited"
    /\ exitcode' = 1
    /\ errmsg' = msg

\* the process carries on with the statement at label l
Goto(l) ==
    /\ pc' = l
    /\ UNCHANGED << exitcode, errmsg >>

(***************************************************************************)
(* State after the declarations of main and lines 70-71.  packets and      *)
(* sumsize are automatic variables without initialiser: their value is     *)
(* indeterminate.  received is written by recvfrom before anything reads   *)
(* it.                                                                     *)
(***************************************************************************)
Init ==
    /\ pc = "getopt"
    /\ exitcode = -1
    /\ errmsg = "none"
    /\ nopts = 0
    /\ ch = "none"
    /\ optarg = << >>
    /\ quiet = 0
    /\ timeout = 0
    /\ ifname = << >>
    /\ mcast = "224.0.0.1"
    /\ service = "discard"
    /\ imr_if = "unset"
    /\ res = 0
    /\ ai = 0
    /\ fd = "none"
    /\ cause = "unset"
    /\ failedOp = "none"
    /\ nOpen = 0
    /\ hALRM = FALSE
    /\ hINT = FALSE
    /\ env = [set |-> FALSE, packets |-> Indet, sumsize |-> Indet]
    /\ timer = "off"
    /\ packets = Indet
    /\ sumsize = Indet
    /\ received = 0
    /\ sin_port = Indet
    /\ out = << >>
    /\ nRecv = 0
    /\ sumLen = 0
    /\ srcPort = Indet
    /\ nFail = 0
    /\ lookups = 0
    /\ sockCalls = 0
    /\ ints = 0
    /\ cancels = 0
    /\ landed = "none"
    /\ closes = 0

(***************************************************************************)
(* Option parsing, lines 72-91.                                            *)
(***************************************************************************)
\* the test of line 75
NameTooLong(s) == strlen(s) >= IFNAMSIZ

\* case 'i'
OptI ==
    /\ pc = "getopt"
    /\ nopts < MaxOpts
    /\ ch' = "i"
    /\ optarg' \in IfArgs
    /\ IF NameTooLong(optarg')
       THEN /\ Exit1("interface name too long")
            /\ UNCHANGED ifname
       ELSE /\ ifname' = optarg'                       \* strncpy
            /\ Goto("getopt")
    /\ nopts' = nopts + 1
    /\ UNCHANGED << quiet, timeout, mcast, service >>
    /\ UNCHANGED << sockVars, sigVars, statVars, out, obsVars >>

\* case 'q'
OptQ ==
    /\ pc = "getopt"
    /\ nopts < MaxOpts
    /\ ch' = "q"
    /\ optarg' = << >>
    /\ quiet' = 1
    /\ nopts' = nopts + 1
    /\ Goto("getopt")
    /\ UNCHANGED << timeout, ifname, mcast, service >>
    /\ UNCHANGED << sockVars, sigVars, statVars, out, obsVars >>

\* the limit tested one too high
TimeoutTooLarge_lax(t) == t > MaxTimeout + 1

\* the test of line 84
TimeoutTooLarge(t) == t > MaxTimeout

\* case 't'
OptT ==
    /\ pc = "getopt"
    /\ nopts < MaxOpts
    /\ ch' = "t"
    /\ optarg' \in TimeoutArgs
    /\ timeout' = atoi(optarg')
    /\ IF TimeoutTooLarge(timeout')
       THEN Exit1("invalid timeout (>3600)")
       ELSE Goto("getopt")
    /\ nopts' = nopts + 1
    /\ UNCHANGED << quiet, ifname, mcast, service >>
    /\ UNCHANGED << sockVars, sigVars, statVars, out, obsVars >>

\* case '?': an option getopt does not know, or a missing argument
OptUnknown ==
    /\ pc = "getopt"
    /\ nopts < MaxOpts
    /\ nopts' = nopts + 1
    /\ ch' = "?"
    /\ optarg' = << >>
    /\ Exit1("usage")
    /\ UNCHANGED << quiet, timeout, ifname, mcast, service >>
    /\ UNCHANGED << sockVars, sigVars, statVars, out, obsVars >>

(***************************************************************************)
(* getopt returns -1; the positional arguments, lines 92-107.              *)
(***************************************************************************)
Positional ==
    /\ pc = "getopt"
    /\ \E argc \in 0..3 :
          \E a0 \in McastArgs, a1 \in ServiceArgs :
             IF argc > 2
             THEN /\ Exit1("usage")
                  /\ UNCHANGED << mcast, service >>
             ELSE /\ service' = IF argc = 2 THEN a1 ELSE service
                  /\ mcast' = IF argc >= 1 THEN a0 ELSE mcast
                  /\ Goto("inet_aton")
    /\ nopts' = 0                                     \* argc -= optind
    /\ ch' = "-1"
    /\ optarg' = << >>
    /\ UNCHANGED << quiet, timeout, ifname >>
    /\ UNCHANGED << sockVars, sigVars, statVars, out, obsVars >>

(***************************************************************************)
(* Lines 109-110.                                                          *)
(***************************************************************************)
InetAton ==
    /\ pc = "inet_aton"
    /\ IF inet_aton(mcast) = 0
       THEN Exit1("invalid multicast group")
       ELSE Goto("ifsel")
    /\ UNCHANGED << cfgVars, sockVars, sigVars, statVars, out, obsVars >>

(***************************************************************************)
(* get_inaddr, lines 189-207.                                              *)
(***************************************************************************)
\* the address family of the entry not tested
SkipEntry_anyFamily(e) == e.family = "NULL"

\* the test of lines 197-198: entries the loop skips
SkipEntry(e) == e.family = "NULL" \/ e.family # "AF_INET"

\* the loop of lines 196-202 from entry i on: the entry it breaks at, or
\* Len(list) + 1 for ifa == NULL
RECURSIVE FindIfa(_, _, _)
FindIfa(list, name, i) ==
    IF i > Len(list) THEN i
    ELSE IF SkipEntry(list[i]) THEN FindIfa(list, name, i + 1)
    ELSE IF name = list[i].name THEN i
    ELSE FindIfa(list, name, i + 1)

IfaFound(name) == FindIfa(Ifaddrs, name, 1) <= Len(Ifaddrs)

\* lines 111-114
IfSel ==
    /\ pc = "ifsel"
    /\ IF ifname # << >>
       THEN \/ /\ Exit1("getifaddrs")                 \* line 195
               /\ UNCHANGED imr_if
            \/ IF IfaFound(ifname)
               THEN /\ imr_if' = Ifaddrs[FindIfa(Ifaddrs, ifname, 1)].addr
                    /\ Goto("getaddrinfo")
               ELSE /\ Exit1("interface does not exist or is invalid")
                    /\ UNCHANGED imr_if
       ELSE /\ imr_if' = "INADDR_ANY"
            /\ Goto("getaddrinfo")
    /\ lookups' = IF ifname # << >> THEN lookups + 1 ELSE lookups
    /\ UNCHANGED << res, ai, fd, cause, failedOp, nOpen >>
    /\ UNCHANGED << cfgVars, sigVars, statVars, out >>
    /\ UNCHANGED << nRecv, sumLen, srcPort, nFail, sockCalls, ints, cancels, landed, closes >>

(***************************************************************************)
(* Lines 116-122.                                                          *)
(***************************************************************************)
Getaddrinfo ==
    /\ pc = "getaddrinfo"
    /\ lookups' = lookups + 1
    /\ IF service = "nosuch"
       THEN /\ Exit1("getaddrinfo")
            /\ UNCHANGED << res, ai >>
       ELSE /\ res' \in 1..MaxCand
            /\ ai' = 1
            /\ Goto("socket")
    /\ UNCHANGED << imr_if, fd, cause, failedOp, nOpen >>
    /\ UNCHANGED << cfgVars, sigVars, statVars, out >>
    /\ UNCHANGED << nRecv, sumLen, srcPort, nFail, sockCalls, ints, cancels, landed, closes >>

(***************************************************************************)
(* The candidate loop, lines 123-141.                                      *)
(***************************************************************************)
\* continue: ai = ai->ai_next and the loop test
Continue ==
    /\ ai' = ai + 1
    /\ Goto(IF ai + 1 > res THEN "check_ai" ELSE "socket")

\* lines 124-128
Socket ==
    /\ pc = "socket"
    /\ sockCalls' = sockCalls + 1
    /\ \/ /\ fd' = "open"
          /\ nOpen' = nOpen + 1
          /\ Goto("bind")
          /\ UNCHANGED << ai, cause, failedOp >>
       \/ /\ fd' = "none"
          /\ cause' = "socket"
          /\ failedOp' = "socket"
          /\ Continue
          /\ UNCHANGED nOpen
    /\ UNCHANGED << imr_if, res >>
    /\ UNCHANGED << cfgVars, sigVars, statVars, out >>
    /\ UNCHANGED << nRecv, sumLen, srcPort, nFail, lookups, ints, cancels, landed, closes >>

\* a failed bind that leaves cause as it was
Bind_staleCause ==
    /\ pc = "bind"
    /\ \/ /\ fd' = "bound"
          /\ Goto("setsockopt")
          /\ UNCHANGED << ai, cause, failedOp, nOpen >>
       \/ /\ failedOp' = "bind"
          /\ fd' = "closed"
          /\ nOpen' = nOpen - 1
          /\ Continue
          /\ UNCHANGED cause
    /\ UNCHANGED << imr_if, res >>
    /\ UNCHANGED << cfgVars, sigVars, statVars, out, obsVars >>

\* lines 129-133
Bind ==
    /\ pc = "bind"
    /\ \/ /\ fd' = "bound"
          /\ Goto("setsockopt")
          /\ UNCHANGED << ai, cause, failedOp, nOpen >>
       \/ /\ cause' = "bind"
          /\ failedOp' = "bind"
          /\ fd' = "closed"
          /\ nOpen' = nOpen - 1
          /\ Continue
    /\ UNCHANGED << imr_if, res >>
    /\ UNCHANGED << cfgVars, sigVars, statVars, out, obsVars >>

\* a failed join that does not close the socket
Setsockopt_leak ==
    /\ pc = "setsockopt"
    /\ \/ /\ IsMulticast(mcast)
          /\ fd' = "joined"
          /\ Goto("check_ai")
          /\ UNCHANGED << ai, cause, failedOp, nOpen >>
       \/ /\ cause' = "IP_ADD_MEMBERSHIP"
          /\ failedOp' = "join"
          /\ Continue
          /\ UNCHANGED << fd, nOpen >>
    /\ UNCHANGED << imr_if, res >>
    /\ UNCHANGED << cfgVars, sigVars, statVars, out, obsVars >>

\* lines 134-140
Setsockopt ==
    /\ pc = "setsockopt"
    /\ \/ /\ IsMulticast(mcast)
          /\ fd' = "joined"
          /\ Goto("check_ai")                          \* break
          /\ UNCHANGED << ai, cause, failedOp, nOpen >>
       \/ /\ cause' = "IP_ADD_MEMBERSHIP"
          /\ failedOp' = "join"
          /\ fd' = "closed"
          /\ nOpen' = nOpen - 1
          /\ Continue
    /\ UNCHANGED << imr_if, res >>
    /\ UNCHANGED << cfgVars, sigVars, statVars, out, obsVars >>

\* lines 142-144; freeaddrinfo releases the list, ai and res dangle
CheckAi ==
    /\ pc = "check_ai"
    /\ IF ai > res
       THEN /\ Exit1(cause)
            /\ UNCHANGED << res, ai >>
       ELSE /\ res' = 0
            /\ ai' = 0
            /\ Goto("sigaction_alrm")
    /\ UNCHANGED << imr_if, fd, cause, failedOp, nOpen >>
    /\ UNCHANGED << cfgVars, sigVars, statVars, out, obsVars >>

(***************************************************************************)
(* Installation of the handlers, lines 146-152.                            *)
(***************************************************************************)
SigactionAlrm ==
    /\ pc = "sigaction_alrm"
    /\ \/ /\ hALRM' = TRUE
          /\ Goto("sigaction_int")
       \/ /\ Exit1("sigaction: SIGALRM")
          /\ UNCHANGED hALRM
    /\ UNCHANGED << hINT, env, timer >>
    /\ UNCHANGED << cfgVars, sockVars, statVars, out, obsVars >>

SigactionInt ==
    /\ pc = "sigaction_int"
    /\ \/ /\ hINT' = TRUE
          /\ Goto("sigsetjmp")
       \/ /\ Exit1("sigaction: SIGINT")
          /\ UNCHANGED hINT
    /\ UNCHANGED << hALRM, env, timer >>
    /\ UNCHANGED << cfgVars, sockVars, statVars, out, obsVars >>

(***************************************************************************)
(* Line 154, the direct call: sigsetjmp fills env and returns 0.           *)
(***************************************************************************)
Sigsetjmp ==
    /\ pc = "sigsetjmp"
    /\ env' = [set |-> TRUE, packets |-> packets, sumsize |-> sumsize]
    /\ Goto("setitimer")
    /\ UNCHANGED << hALRM, hINT, timer >>
    /\ UNCHANGED << cfgVars, sockVars, statVars, out, obsVars >>

(***************************************************************************)
(* Lines 157-160.  setitimer fails with EINVAL on a negative tv_sec; an    *)
(* it_value of zero disarms the timer.                                     *)
(***************************************************************************)
\* it_value left at zero: the timer is never armed
TimerAfterSet_never(t) == "off"

\* a timeout of 0 arms the timer as well
TimerAfterSet_always(t) == "armed"

TimerAfterSet(t) == IF t > 0 THEN "armed" ELSE "off"

Setitimer ==
    /\ pc = "setitimer"
    /\ IF timeout < 0
       THEN /\ Exit1("setitimer")
            /\ UNCHANGED timer
       ELSE /\ timer' = TimerAfterSet(timeout)
            /\ Goto("init_packets")
    /\ UNCHANGED << hALRM, hINT, env >>
    /\ UNCHANGED << cfgVars, sockVars, statVars, out, obsVars >>

(***************************************************************************)
(* Lines 162-163.                                                          *)
(***************************************************************************)
InitPackets ==
    /\ pc = "init_packets"
    /\ packets' = 0
    /\ Goto("init_sumsize")
    /\ UNCHANGED << sumsize, received, sin_port >>
    /\ UNCHANGED << cfgVars, sockVars, sigVars, out, obsVars >>

InitSumsize ==
    /\ pc = "init_sumsize"
    /\ sumsize' = 0
    /\ Goto("recvfrom")
    /\ UNCHANGED << packets, received, sin_port >>
    /\ UNCHANGED << cfgVars, sockVars, sigVars, out, obsVars >>

(***************************************************************************)
(* The receive loop, lines 164-174.                                        *)
(***************************************************************************)
Min(a, b) == IF a < b THEN a ELSE b

\* recvfrom returns a datagram, cut to the size of buffer
RecvOk ==
    /\ pc = "recvfrom"
    /\ nRecv + nFail < MaxPackets
    /\ \E len \in Payloads :
          /\ received' = Min(len, BUFFERSIZE)
          /\ sumLen' = sumLen + len
    /\ \E port \in Ports :
          /\ sin_port' = htons(port)
          /\ srcPort' = port
    /\ nRecv' = nRecv + 1
    /\ Goto("inc_packets")
    /\ UNCHANGED << packets, sumsize >>
    /\ UNCHANGED << cfgVars, sockVars, sigVars, out >>
    /\ UNCHANGED << nFail, lookups, sockCalls, ints, cancels, landed, closes >>

\* recvfrom returns -1
RecvFail ==
    /\ pc = "recvfrom"
    /\ nRecv + nFail < MaxPackets
    /\ received' = -1
    /\ nFail' = nFail + 1
    /\ Goto("inc_packets")
    /\ UNCHANGED << packets, sumsize, sin_port >>
    /\ UNCHANGED << cfgVars, sockVars, sigVars, out >>
    /\ UNCHANGED << nRecv, sumLen, srcPort, lookups, sockCalls, ints, cancels, landed, closes >>

\* conversion of a ssize_t to size_t
ToSize(n) == (n + SizeMod) % SizeMod

\* v + n in a size_t
AddSize(v, n) == IF v = Indet THEN Indet ELSE (v + ToSize(n)) % SizeMod

\* line 168
IncPackets ==
    /\ pc = "inc_packets"
    /\ packets' = AddSize(packets, 1)
    /\ Goto("add_sumsize")
    /\ UNCHANGED << sumsize, received, sin_port >>
    /\ UNCHANGED << cfgVars, sockVars, sigVars, out, obsVars >>

\* line 169
AddSumsize ==
    /\ pc = "add_sumsize"
    /\ sumsize' = AddSize(sumsize, received)
    /\ Goto("log")
    /\ UNCHANGED << packets, received, sin_port >>
    /\ UNCHANGED << cfgVars, sockVars, sigVars, out, obsVars >>

\* quiet not consulted
LogEnabled_always(q) == TRUE

\* the test of line 170
LogEnabled(q) == q = 0

\* lines 170-173
LogPacket ==
    /\ pc = "log"
    /\ out' = IF LogEnabled(quiet)
              THEN Append(out, [kind |-> "packet", port |-> sin_port,
                                size |-> ToSize(received)])
              ELSE out
    /\ Goto("recvfrom")
    /\ UNCHANGED << cfgVars, sockVars, sigVars, statVars, obsVars >>

(***************************************************************************)
(* The termination path, lines 175-180.                                    *)
(***************************************************************************)
\* line 176: an empty line, then the summary line with the two counters (an
\* Indet field: the line shows whatever the read gave)
Quit ==
    /\ pc = "quit"
    /\ out' = out \o << [kind |-> "blank"],
                        [kind |-> "summary", packets |-> packets,
                         bytes |-> sumsize] >>
    /\ Goto("close")
    /\ UNCHANGED << cfgVars, sockVars, sigVars, statVars, obsVars >>

\* line 178
Close ==
    /\ pc = "close"
    /\ closes' = closes + 1
    /\ fd' = "closed"
    /\ nOpen' = IF fd = "closed" THEN nOpen ELSE nOpen - 1
    /\ Goto("return")
    /\ UNCHANGED << imr_if, res, ai, cause, failedOp >>
    /\ UNCHANGED << cfgVars, sigVars, statVars, out >>
    /\ UNCHANGED << nRecv, sumLen, srcPort, nFail, lookups, sockCalls, ints, cancels, landed >>

\* line 180
Return ==
    /\ pc = "return"
    /\ pc' = "exited"
    /\ exitcode' = 0
    /\ UNCHANGED errmsg
    /\ UNCHANGED << cfgVars, sockVars, sigVars, statVars, out, obsVars >>

(***************************************************************************)
(* alarm_handler, lines 183-187, run on delivery of a signal.  With env    *)
(* filled, siglongjmp restores the signal mask saved at line 154, and      *)
(* sigsetjmp returns 1: main takes goto quit.  packets and sumsize are     *)
(* not volatile: depending on where the build keeps each of them, after   *)
(* the jump it holds its current value (kept in memory) or the one saved   *)
(* when sigsetjmp was called (kept in a register).  A later jump restores  *)
(* the same registers again and changes nothing more.  With env not yet    *)
(* filled the jump goes through a zeroed buffer and the process dies.      *)
(***************************************************************************)
AfterJump(v, saved) == IF cancels = 0 THEN {v, saved} ELSE {v}

\* a handler that returns to the interrupted statement
AlarmHandler_return ==
    /\ cancels' = cancels + 1
    /\ landed' = IF cancels = 0 THEN pc ELSE landed
    /\ UNCHANGED << pc, packets, sumsize >>
    /\ UNCHANGED << exitcode, errmsg, received, sin_port >>

AlarmHandler ==
    /\ cancels' = cancels + 1
    /\ landed' = IF cancels = 0 THEN pc ELSE landed
    /\ IF env.set
       THEN /\ pc' = "quit"
            /\ packets' \in AfterJump(packets, env.packets)
            /\ sumsize' \in AfterJump(sumsize, env.sumsize)
       ELSE /\ pc' = "crashed"
            /\ UNCHANGED << packets, sumsize >>
    /\ UNCHANGED << exitcode, errmsg, received, sin_port >>

\* the action of a signal whose disposition is still SIG_DFL
DefaultAction ==
    /\ pc' = "killed"
    /\ UNCHANGED << exitcode, errmsg, statVars, cancels, landed >>

\* SIGINT is sent to the process
SigInt ==
    /\ Alive
    /\ ints < MaxInts
    /\ ints' = ints + 1
    /\ IF hINT THEN AlarmHandler ELSE DefaultAction
    /\ UNCHANGED << cfgVars, sockVars, sigVars, out >>
    /\ UNCHANGED << nRecv, sumLen, srcPort, nFail, lookups, sockCalls, closes >>

\* the one-shot timer expires: SIGALRM
SigAlrm ==
    /\ Alive
    /\ timer = "armed"
    /\ timer' = "fired"
    /\ IF hALRM THEN AlarmHandler ELSE DefaultAction
    /\ UNCHANGED << hALRM, hINT, env >>
    /\ UNCHANGED << cfgVars, sockVars, out >>
    /\ UNCHANGED << nRecv, sumLen, srcPort, nFail, lookups, sockCalls, ints, closes >>

(***************************************************************************)
(* Specifications.                                                         *)
(***************************************************************************)
Main ==
    \/ OptI \/ OptQ \/ OptT \/ OptUnknown \/ Positional
    \/ InetAton \/ IfSel \/ Getaddrinfo
    \/ Socket \/ Bind \/ Setsockopt \/ CheckAi
    \/ SigactionAlrm \/ SigactionInt \/ Sigsetjmp \/ Setitimer
    \/ InitPackets \/ InitSumsize
    \/ IncPackets \/ AddSumsize \/ LogPacket
    \/ Quit \/ Close \/ Return

Next ==
    \/ Main
    \/ RecvOk
    \/ RecvFail
    \/ SigInt
    \/ SigAlrm

Spec == Init /\ [][Next]_vars

\* main runs whenever it is not blocked in recvfrom, and an armed timer
\* expires
FairSpec == Spec /\ WF_vars(Main) /\ WF_vars(SigAlrm)

(***************************************************************************)
(* Reading the state.                                                      *)
(***************************************************************************)
\* lines of one kind written to stdout
Count(kind) == Cardinality({ i \in DOMAIN out : out[i].kind = kind })

\* the process ended by exit(n) or by return n from main
Exited(n) == pc = "exited" /\ exitcode = n

\* statements of the receive loop, lines 164-174
LoopPcs == { "recvfrom", "inc_packets", "add_sumsize", "log" }

\* statements of the termination path, lines 175-180
QuitPcs == { "quit", "close", "return" }

\* no getifaddrs, getaddrinfo or socket call has been made
NoResolution == lookups = 0 /\ sockCalls = 0

\* a string of decimal digits
IsNumber(s) == s # << >> /\ \A i \in DOMAIN s : IsDigit(s[i])

\* the host has an interface of this name with an IPv4 address
HasIPv4(name) ==
    \E i \in DOMAIN Ifaddrs :
        Ifaddrs[i].name = name /\ Ifaddrs[i].family = "AF_INET"

(***************************************************************************)
(* C1: on every cancelled termination the summary line is written exactly  *)
(* once, after exactly one empty line, quiet or not.                       *)
(* The code does not keep this: a second signal during lines 176-180 runs  *)
(* the termination path again.                                             *)
(***************************************************************************)
C1_SummaryOnce ==
    (Exited(0) /\ cancels > 0) =>
        /\ Count("summary") = 1
        /\ Count("blank") = 1
        /\ out[Len(out)].kind = "summary"
        /\ out[Len(out) - 1].kind = "blank"

(***************************************************************************)
(* C2: when the cancellation lands in the receive loop after recvfrom has  *)
(* returned N datagrams (and never failed), the summary shows packets = N  *)
(* and bytes = the sum of their payload lengths.  Fields whose value is    *)
(* indeterminate after the jump are left out of the comparison.            *)
(* The code does not keep this: the jump may fall between recvfrom and     *)
(* line 168 or between lines 168 and 169, and recvfrom cuts a payload to   *)
(* BUFFERSIZE.                                                             *)
(***************************************************************************)
C2_SummaryCounts ==
    (landed \in LoopPcs /\ nFail = 0) =>
        \A i \in DOMAIN out :
            out[i].kind = "summary" =>
                /\ out[i].packets \in {nRecv, Indet}
                /\ out[i].bytes \in {sumLen, Indet}

(***************************************************************************)
(* C3: with a timeout T > 0, once the receive loop is entered the process  *)
(* eventually ends with exit code 0, and when no SIGINT was sent it is     *)
(* the timer that ended it.                                                *)
(***************************************************************************)
C3_TimerTerminates ==
    /\ (timeout > 0 /\ pc \in LoopPcs) ~> Exited(0)
    /\ [](Exited(0) /\ ints = 0 => timer = "fired" /\ timeout > 0)

C3_Witness ==
    /\ Exited(0)
    /\ timeout > 0
    /\ landed = "recvfrom"
    /\ nRecv = 0 /\ nFail = 0
    /\ ints = 0
    /\ timer = "fired"

(***************************************************************************)
(* C4: with timeout 0 the timer is never armed and never fires, the        *)
(* termination path is entered only after a SIGINT, and the process then   *)
(* ends with exit code 0.                                                  *)
(***************************************************************************)
C4_NoSelfTermination ==
    timeout = 0 =>
        /\ timer = "off"
        /\ pc \in QuitPcs => ints > 0
        /\ pc = "exited" /\ (cancels > 0 \/ Len(out) > 0) =>
               ints > 0 /\ exitcode = 0

C4_Witness ==
    /\ Exited(0)
    /\ timeout = 0
    /\ landed \in LoopPcs
    /\ ints = 1
    /\ Count("summary") = 1

(***************************************************************************)
(* C5: a recvfrom that fails is fatal: the process does not go on with the *)
(* loop body and ends with exit code 1, without a summary.                 *)
(* The code does not test the result of recvfrom.                          *)
(***************************************************************************)
C5_RecvErrorFatal ==
    (nFail > 0 /\ cancels = 0) =>
        /\ pc \in {"inc_packets", "exited"}
        /\ pc = "exited" => exitcode = 1
        /\ Count("summary") = 0

(***************************************************************************)
(* C6: -t with a value above 3600 ends the process with exit code 1 before *)
(* any getifaddrs, getaddrinfo or socket call; 3600 is not rejected.       *)
(***************************************************************************)
C6_TimeoutRange ==
    /\ (ch = "t" /\ IsNumber(optarg) /\ atoi(optarg) >= 3601) =>
           Exited(1) /\ NoResolution
    /\ timeout > 3600 => Exited(1) /\ NoResolution
    /\ (ch = "t" /\ atoi(optarg) = 3600) => pc # "exited"

C6_Witness ==
    /\ ch = "t"
    /\ atoi(optarg) = 3601
    /\ Exited(1)
    /\ errmsg = "invalid timeout (>3600)"

(***************************************************************************)
(* C7: a -t argument that is negative or not a number ends the process     *)
(* with exit code 1 during option parsing, before any resolution or socket *)
(* work, and the receive loop never runs with a timeout outside 0..3600.   *)
(* The code takes atoi of the argument and tests only the upper limit.     *)
(***************************************************************************)
C7_TimeoutMalformed ==
    /\ (ch = "t" /\ ~IsNumber(optarg)) => Exited(1) /\ NoResolution
    /\ timeout < 0 => Exited(1) /\ NoResolution
    /\ pc \in LoopPcs => timeout \in 0..3600

(***************************************************************************)
(* C8: an interface name of IFNAMSIZ characters or more, or one that names *)
(* no interface with an IPv4 address, ends the process with exit code 1    *)
(* before any socket call.                                                 *)
(***************************************************************************)
C8_BadInterface ==
    /\ (ch = "i" /\ Len(optarg) > IFNAMSIZ - 1) =>
           Exited(1) /\ sockCalls = 0
    /\ Len(ifname) <= IFNAMSIZ - 1
    /\ (pc # "getopt" /\ ifname # << >> /\ ~HasIPv4(ifname)) =>
           /\ pc \in {"inet_aton", "ifsel", "exited", "killed"}
           /\ pc = "exited" => exitcode = 1
           /\ sockCalls = 0

C8_Witness ==
    /\ ifname = <<"t","u","n","0">>
    /\ Exited(1)
    /\ errmsg = "interface does not exist or is invalid"
    /\ sockCalls = 0

(***************************************************************************)
(* C9: with -q no per-packet line is written, however many datagrams are   *)
(* received and wherever the signals land, and the summary is written.     *)
(***************************************************************************)
C9_QuietNoPacketLines ==
    quiet = 1 =>
        /\ Count("packet") = 0
        /\ Exited(0) => Count("summary") >= 1

C9_Witness ==
    /\ quiet = 1
    /\ nRecv >= 2
    /\ packets = nRecv
    /\ Exited(0)
    /\ Count("summary") >= 1

(***************************************************************************)
(* C10: exit code 0 only after a cancellation and the summary; exit code 1 *)
(* on every configuration, resolution, socket-setup and signal-setup       *)
(* error; on exit code 1 nothing was received and no summary was written.  *)
(* The code lets a malformed -t argument through (C7).                     *)
(***************************************************************************)
PostSetup   == {"init_packets", "init_sumsize"} \cup LoopPcs \cup QuitPcs
PostSignals == {"sigsetjmp", "setitimer"} \cup PostSetup
PostSocket  == {"sigaction_alrm", "sigaction_int"} \cup PostSignals
PostGai     == {"socket", "bind", "setsockopt", "check_ai"} \cup PostSocket
PostIf      == {"getaddrinfo"} \cup PostGai
PostAton    == {"ifsel"} \cup PostIf

\* exit code 0 and exit code 1, as far as the code keeps them
ExitCodesKept ==
    /\ Exited(0) => cancels > 0 /\ Count("summary") >= 1
    /\ Exited(1) => nRecv = 0 /\ nFail = 0 /\ Len(out) = 0
    /\ ch = "?" => Exited(1)
    /\ (ch = "i" /\ Len(optarg) >= IFNAMSIZ) => Exited(1)
    /\ (ch = "t" /\ IsNumber(optarg) /\ atoi(optarg) > 3600) => Exited(1)
    /\ pc \in PostAton => inet_aton(mcast) # 0
    /\ pc \in PostIf => ifname = << >> \/ HasIPv4(ifname)
    /\ pc \in PostGai => service # "nosuch"
    /\ pc \in {"socket", "bind", "setsockopt", "check_ai"} => res >= 1
    /\ pc \in PostSocket => IsMulticast(mcast) /\ fd \in {"joined", "closed"}
    /\ pc \in PostSignals => hALRM /\ hINT
    /\ pc \in {"init_packets", "init_sumsize"} \cup LoopPcs => timeout >= 0

C10_ExitCodes ==
    /\ ExitCodesKept
    /\ (ch = "t" /\ ~IsNumber(optarg)) => Exited(1)

(***************************************************************************)
(* C11: the candidates are tried in list order, each as socket, bind,      *)
(* join; the loop stops at the first candidate for which all three         *)
(* succeed; when every candidate fails the process ends with exit code 1   *)
(* and the error names the call that failed on the last candidate.         *)
(***************************************************************************)
\* every candidate up to ai has had its socket call, in order, and no other
CandidatesInOrder ==
    /\ pc \in {"socket", "bind", "setsockopt"} =>
           /\ ai \in 1..res
           /\ sockCalls = (IF pc = "socket" THEN ai - 1 ELSE ai)
    /\ pc = "bind" => fd = "open"
    /\ pc = "setsockopt" => fd = "bound"
    /\ (pc = "check_ai" /\ ai <= res) => fd = "joined" /\ sockCalls = ai
    /\ (pc = "check_ai" /\ ai > res) =>
           sockCalls = res /\ fd # "joined" /\ failedOp # "none"
    /\ pc \in PostSocket => fd \in {"joined", "closed"}

\* the process ended at line 143
AllFailed == pc = "exited" /\ res >= 1 /\ ai > res

\* the name the code gives to the call
CauseName(op) == IF op = "join" THEN "IP_ADD_MEMBERSHIP" ELSE op

\* as claimed: the names are "socket", "bind" and "join"
C11_NamedJoin ==
    /\ CandidatesInOrder
    /\ AllFailed => exitcode = 1 /\ sockCalls = res /\ errmsg = failedOp

\* as amended: the names are "socket", "bind" and "IP_ADD_MEMBERSHIP"
C11_LastFailureNamed ==
    /\ CandidatesInOrder
    /\ AllFailed => exitcode = 1 /\ sockCalls = res
                    /\ errmsg = CauseName(failedOp)

C11_Witness ==
    /\ AllFailed
    /\ res >= 2
    /\ failedOp = "bind"
    /\ errmsg = "bind"
    /\ sockCalls = res

(***************************************************************************)
(* C12: during the candidate loop at most one socket is open; every        *)
(* candidate that failed at bind or at join has had its socket closed      *)
(* before the next one is tried; after a successful loop exactly one       *)
(* socket is open, and it is bound and joined.                             *)
(***************************************************************************)
\* main is between the successful end of the loop and the termination path
Opened ==
    \/ pc = "check_ai" /\ ai <= res
    \/ pc \in {"sigaction_alrm", "sigaction_int", "sigsetjmp", "setitimer",
               "init_packets", "init_sumsize"}
    \/ pc \in LoopPcs

C12_OneSocket ==
    /\ nOpen \in {0, 1}
    /\ pc = "socket" => nOpen = 0 /\ fd \in {"none", "closed"}
    /\ pc = "bind" => nOpen = 1 /\ fd = "open"
    /\ pc = "setsockopt" => nOpen = 1 /\ fd = "bound"
    /\ (pc = "check_ai" /\ ai > res) => nOpen = 0
    /\ Opened => nOpen = 1 /\ fd = "joined"

C12_Witness ==
    /\ pc = "sigaction_alrm"
    /\ fd = "joined"
    /\ nOpen = 1
    /\ sockCalls >= 2
    /\ failedOp = "join"

(***************************************************************************)
(* C13: on every way out of the process after the socket was opened        *)
(* (return after a cancellation, or a fatal sigaction or setitimer error)  *)
(* close(fd) has been called exactly once and the socket is closed.        *)
(* The code does not keep this: err() at lines 150, 152 and 160 exits      *)
(* without close(fd), and a second signal during lines 176-180 runs        *)
(* close(fd) a second time.                                                *)
(***************************************************************************)
\* the process has ended after a successful candidate loop
EndedAfterOpen ==
    /\ pc = "exited"
    /\ \/ exitcode = 0
       \/ errmsg \in {"sigaction: SIGALRM", "sigaction: SIGINT", "setitimer"}

C13_ClosedOnce == EndedAfterOpen => closes = 1 /\ nOpen = 0

(***************************************************************************)
(* C14: a signal that arrives while main is in the receive loop puts main  *)
(* at quit; after a handler run there is no recvfrom call, no change of    *)
(* the counters and no per-packet line any more; the termination path is   *)
(* entered only by a handler run.                                          *)
(***************************************************************************)
\* a step that follows a handler run leaves the loop's effects as they are
NoLoopEffect ==
    /\ nRecv' = nRecv
    /\ nFail' = nFail
    /\ packets' = packets
    /\ sumsize' = sumsize
    /\ Count("packet")' = Count("packet")

C14_CancelLeavesLoop ==
    /\ [](cancels > 0 => pc \in QuitPcs \cup {"exited", "crashed"})
    /\ [](pc \in QuitPcs \/ Exited(0) => cancels > 0)
    /\ [][(pc \in LoopPcs /\ cancels' > cancels) => pc' = "quit"]_vars
    /\ [][cancels > 0 => NoLoopEffect]_vars

C14_Witness ==
    /\ Exited(0)
    /\ landed \in {"inc_packets", "add_sumsize", "log"}
    /\ nRecv = 1
    /\ nFail = 0
    /\ Count("packet") = 0
    /\ quiet = 0

(***************************************************************************)
(* C15: only the first handler run has an effect: a later run (SIGINT      *)
(* after the timer, the timer after SIGINT) leaves main where it is and    *)
(* changes neither the program state nor the output.                       *)
(* The code does not keep this: the signal mask saved by sigsetjmp(env, 1) *)
(* blocks nothing, so a later signal runs alarm_handler again and main     *)
(* restarts at quit.                                                       *)
(***************************************************************************)
C15_SecondSourceInert ==
    [][(cancels >= 1 /\ cancels' > cancels) =>
           /\ pc' = pc
           /\ out' = out
           /\ fd' = fd
           /\ packets' = packets
           /\ sumsize' = sumsize]_vars

(***************************************************************************)
(* C16: without -q, when the cancellation lands in the receive loop and no *)
(* recvfrom failed, every summary line shows a packet count equal to the   *)
(* number of per-packet lines written before it.  A count whose value is   *)
(* indeterminate after the jump is left out of the comparison.             *)
(* The code does not keep this: the signal may fall between packets++ of   *)
(* line 168 and the printf of line 171.                                    *)
(***************************************************************************)
C16_LinesMatchCount ==
    (quiet = 0 /\ landed \in LoopPcs /\ nFail = 0) =>
        \A i \in DOMAIN out :
            out[i].kind = "summary" =>
                out[i].packets \in {Count("packet"), Indet}

(***************************************************************************)
(* C17: in the receive loop packets and sumsize never become smaller, and  *)
(* they change only for a datagram that recvfrom returned.                 *)
(* The code does not keep this: the result of recvfrom is not tested, so   *)
(* a failed call is counted as a packet and adds (size_t)-1 to sumsize.    *)
(***************************************************************************)
C17_NeverDecremented ==
    [][(pc \in LoopPcs /\ pc' \in LoopPcs) =>
           /\ packets' >= packets
           /\ sumsize' >= sumsize
           /\ (packets' # packets \/ sumsize' # sumsize) => received >= 0]_vars

(***************************************************************************)
(* C18: the per-packet line of a received datagram shows the port the      *)
(* datagram was sent from as a host-order integer, that is ntohs of the    *)
(* sin_port that recvfrom stored.                                          *)
(* The code does not keep this: line 172 passes sin.sin_port to printf as  *)
(* it is, so that a little-endian host prints the two bytes exchanged.     *)
(***************************************************************************)
C18_PortHostOrder ==
    [][(pc = "log" /\ received >= 0 /\ Len(out') > Len(out)) =>
           /\ out'[Len(out')].port = ntohs(sin_port)
           /\ out'[Len(out')].port = srcPort]_vars

(***************************************************************************)
(* C19: a summary line is printed only after lines 162-163 have set both   *)
(* counters to 0, that is the first cancellation fell in the receive loop. *)
(* The code does not keep this: the handlers are installed at lines        *)
(* 146-152 and the timer is armed at line 159, before the counters are     *)
(* initialised.                                                            *)
(***************************************************************************)
C19_CountersInitialised ==
    Count("summary") > 0 => landed \in LoopPcs

(***************************************************************************)
(* C20: alarm_handler runs only when sigsetjmp has filled env, and so the  *)
(* program never jumps through an unset env.                               *)
(* The code does not keep this: sigaction installs the handler at lines    *)
(* 148 and 151, sigsetjmp is called at line 154.                           *)
(***************************************************************************)
C20_EnvSetBeforeHandler ==
    /\ cancels > 0 => env.set
    /\ pc # "crashed"

====
